---- MODULE Spec2Model ----
(***************************************************************************)
(* Trapezoidal (six-step) BLDC commutation with an outer speed loop, as    *)
(* implemented in "Motor Driver Code/PMSMx/BasicMotorControl.c".           *)
(*                                                                         *)
(* Numbers.  The PIDs fields are C floats.  All values used here are       *)
(* integers of magnitude below 2^24 (exact in a float), except PIDs.output *)
(* which carries the factor .001 of line 133: it is kept in thousandths    *)
(* (Scale), so that Kp*err + Ki*integral*.001 is exact.                    *)
(*                                                                         *)
(* The diagnostic line of lines 146-148 goes to the UART and changes no    *)
(* state of this file; it is not modelled.                                 *)
(***************************************************************************)
EXTENDS Integers, Naturals, Sequences, FiniteSets, TLC

(***************************************************************************)
(* Bounds of the model.                                                    *)
(***************************************************************************)
\* Hall transitions that may be recorded and not yet consumed by a step.
MaxHall == 2
\* Executing control steps in the specifications Spec, SpecIntr, SpecLoop and
\* SpecBook.
MaxSteps == 2
\* Executing control steps in the specification SpecWindup.
WindupSteps == 33
\* Hall transitions recorded and not yet consumed, in the specifications
\* SpecLoop and SpecBook.
LoopHall == 1

(***************************************************************************)
(* Program constants.                                                      *)
(***************************************************************************)
SPEED_CONSTANT == 52500000
INTEGRAL_MAX == 2000000
OUTPUT_MAX == 30000
TORQUE_DIV == 30
\* 1/.001: PIDs.output is held in thousandths
Scale == 1000
\* TMR3HLD << 16
Word == 65536
\* direction codes of PMSM.h
CW == 0
CCW == 1

U16 == Word

VARIABLES
    motorInfo,          \* BasicMotorControlInfo: currentSpeed, hallCount, lastHallState
    PIDs,               \* static struct PIDs
    speedPID,           \* tPID speedPID: abcCoefficients, controlHistory
    timerCurr, timer, commandedTorque, changeState,
    TMR2, TMR3HLD,      \* the 32-bit timer pair
    GH_A_DC, GL_A_DC, GH_B_DC, GL_B_DC, GH_C_DC, GL_C_DC,
    LED1, LED2, LED3,
    HALL1, HALL2, HALL3,
    CNIF,               \* IFS1bits.CNIF
    DIV0ERR,            \* the math error trap was taken: the program has stopped
    pc,                 \* position of the main context inside SpeedControlStep
    stepSpeed,          \* the argument speed of the SpeedControlStep in progress
    pendingHalls,       \* transitions recorded by TrapUpdate, not yet read at line 122
    pendingTicks,       \* ticks added to timer by TrapUpdate, not yet read at line 122
    hallSeen,           \* a Hall transition was recorded since the last executing step
    nSteps,             \* executing control steps so far
    last                \* the last event: [op, args, ran]; args are TrapUpdate's
                        \* torque and direction, or for an executing control
                        \* step 1 when it divided by zero and 0 when not

gates == <<GH_A_DC, GL_A_DC, GH_B_DC, GL_B_DC, GH_C_DC, GL_C_DC>>
leds == <<LED1, LED2, LED3>>
halls == <<HALL1, HALL2, HALL3>>
hwTimer == <<TMR2, TMR3HLD>>
ghost == <<pendingHalls, pendingTicks, hallSeen, nSteps, last>>
\* everything the program itself stores or drives
progVars == <<motorInfo, PIDs, speedPID, timerCurr, timer, commandedTorque,
              changeState, TMR2, TMR3HLD, gates, leds, CNIF>>
vars == <<progVars, halls, DIV0ERR, pc, stepSpeed, ghost>>

(***************************************************************************)
(* Integer conversions.  The 32-bit quantities of the program (timer,      *)
(* timerCurr, currentSpeed) stay far below 2^31 for the timer readings     *)
(* used here, so they are plain integers; the 16-bit ones wrap.            *)
(***************************************************************************)
ToUint16(x) == x % U16

Min(a, b) == IF a < b THEN a ELSE b

Max(a, b) == IF a > b THEN a ELSE b

(***************************************************************************)
(* The fixed-point PID primitive of <dsp.h>, as far as this file uses it:  *)
(* PIDInit clears the history, Float2Fract converts a gain to Q15 (gains   *)
(* here are whole numbers, so the result is 0 or a saturated value), and   *)
(* PIDCoeffCalc derives the three filter coefficients, saturating.         *)
(***************************************************************************)
Q15_MAX == 32767
Q15_MIN == -32768

SatQ15(x) == Max(Q15_MIN, Min(Q15_MAX, x))

Float2Fract(v) == IF v >= 1 THEN Q15_MAX ELSE IF v <= -1 THEN Q15_MIN ELSE 0

PIDCoeffCalc(kp, ki, kd) ==
    <<SatQ15(kp + ki + kd), SatQ15(-(kp + 2 * kd)), kd>>

\* DSPInit: PIDInit(&speedPID) clears the three history words.
DSPInit(pid) == [pid EXCEPT !.controlHistory = <<0, 0, 0>>]

\* DSPTuningsInit: only speedPID's coefficients change.
DSPTuningsInit(pid, p, i, d) ==
    [pid EXCEPT !.abcCoefficients =
        PIDCoeffCalc(Float2Fract(p), Float2Fract(i), Float2Fract(d))]

(***************************************************************************)
(* The commutation tables of TrapUpdate.  h1, h2, h3 are the Hall pins as  *)
(* read; prev is the record of the outputs before the call, kept when no   *)
(* branch is taken.                                                        *)
(***************************************************************************)
Outputs(gha, gla, ghb, glb, ghc, glc, l1, l2, l3) ==
    [GH_A |-> gha, GL_A |-> gla, GH_B |-> ghb, GL_B |-> glb,
     GH_C |-> ghc, GL_C |-> glc, LED1 |-> l1, LED2 |-> l2, LED3 |-> l3]

CurrentOutputs ==
    Outputs(GH_A_DC, GL_A_DC, GH_B_DC, GL_B_DC, GH_C_DC, GL_C_DC, LED1, LED2, LED3)

On(h) == h # 0

\* A faulty CW table: the branch for 110 drives both sides of phase B.
CWTableShootThrough(torque, h1, h2, h3, prev) ==
    IF On(h1) /\ On(h2) /\ ~On(h3)
        THEN Outputs(0, 0, torque, torque, 0, 0, 1, 1, 0)
    ELSE IF ~On(h1) /\ On(h2) /\ ~On(h3)
        THEN Outputs(0, torque, torque, 0, 0, 0, 0, 1, 0)
    ELSE IF ~On(h1) /\ On(h2) /\ On(h3)
        THEN Outputs(0, torque, 0, 0, torque, 0, 0, 1, 1)
    ELSE IF ~On(h1) /\ ~On(h2) /\ On(h3)
        THEN Outputs(0, 0, 0, torque, torque, 0, 0, 0, 1)
    ELSE IF On(h1) /\ ~On(h2) /\ On(h3)
        THEN Outputs(torque, 0, 0, torque, 0, 0, 1, 0, 1)
    ELSE IF On(h1) /\ ~On(h2) /\ ~On(h3)
        THEN Outputs(torque, 0, 0, 0, 0, torque, 1, 0, 0)
    ELSE prev

CWTable(torque, h1, h2, h3, prev) ==
    IF On(h1) /\ On(h2) /\ ~On(h3)
        THEN Outputs(0, 0, torque, 0, 0, torque, 1, 1, 0)
    ELSE IF ~On(h1) /\ On(h2) /\ ~On(h3)
        THEN Outputs(0, torque, torque, 0, 0, 0, 0, 1, 0)
    ELSE IF ~On(h1) /\ On(h2) /\ On(h3)
        THEN Outputs(0, torque, 0, 0, torque, 0, 0, 1, 1)
    ELSE IF ~On(h1) /\ ~On(h2) /\ On(h3)
        THEN Outputs(0, 0, 0, torque, torque, 0, 0, 0, 1)
    ELSE IF On(h1) /\ ~On(h2) /\ On(h3)
        THEN Outputs(torque, 0, 0, torque, 0, 0, 1, 0, 1)
    ELSE IF On(h1) /\ ~On(h2) /\ ~On(h3)
        THEN Outputs(torque, 0, 0, 0, 0, torque, 1, 0, 0)
    ELSE prev

\* A faulty CCW table: the branch for 001 repeats the CW pair (C high, B low).
CCWTableNotMirrored(torque, h1, h2, h3, prev) ==
    IF On(h1) /\ On(h2) /\ ~On(h3)
        THEN Outputs(0, 0, 0, torque, torque, 0, 1, 1, 0)
    ELSE IF ~On(h1) /\ On(h2) /\ ~On(h3)
        THEN Outputs(torque, 0, 0, torque, 0, 0, 0, 1, 0)
    ELSE IF ~On(h1) /\ On(h2) /\ On(h3)
        THEN Outputs(torque, 0, 0, 0, 0, torque, 0, 1, 1)
    ELSE IF ~On(h1) /\ ~On(h2) /\ On(h3)
        THEN Outputs(0, 0, 0, torque, torque, 0, 0, 0, 1)
    ELSE IF On(h1) /\ ~On(h2) /\ On(h3)
        THEN Outputs(0, torque, torque, 0, 0, 0, 1, 0, 1)
    ELSE IF On(h1) /\ ~On(h2) /\ ~On(h3)
        THEN Outputs(0, torque, 0, 0, torque, 0, 1, 0, 0)
    ELSE prev

CCWTable(torque, h1, h2, h3, prev) ==
    IF On(h1) /\ On(h2) /\ ~On(h3)
        THEN Outputs(0, 0, 0, torque, torque, 0, 1, 1, 0)
    ELSE IF ~On(h1) /\ On(h2) /\ ~On(h3)
        THEN Outputs(torque, 0, 0, torque, 0, 0, 0, 1, 0)
    ELSE IF ~On(h1) /\ On(h2) /\ On(h3)
        THEN Outputs(torque, 0, 0, 0, 0, torque, 0, 1, 1)
    ELSE IF ~On(h1) /\ ~On(h2) /\ On(h3)
        THEN Outputs(0, 0, torque, 0, 0, torque, 0, 0, 1)
    ELSE IF On(h1) /\ ~On(h2) /\ On(h3)
        THEN Outputs(0, torque, torque, 0, 0, 0, 1, 0, 1)
    ELSE IF On(h1) /\ ~On(h2) /\ ~On(h3)
        THEN Outputs(0, torque, 0, 0, torque, 0, 1, 0, 0)
    ELSE prev

\* A faulty commutation: a Hall pattern without a branch switches all six
\* outputs and the LEDs off.
CommutateInvalidOff(torque, direction, h1, h2, h3, prev) ==
    IF <<h1, h2, h3>> \in {<<0, 0, 0>>, <<1, 1, 1>>}
        THEN Outputs(0, 0, 0, 0, 0, 0, 0, 0, 0)
    ELSE IF direction = CW THEN CWTable(torque, h1, h2, h3, prev)
    ELSE IF direction = CCW THEN CCWTable(torque, h1, h2, h3, prev)
    ELSE prev

Commutate(torque, direction, h1, h2, h3, prev) ==
    IF direction = CW THEN CWTable(torque, h1, h2, h3, prev)
    ELSE IF direction = CCW THEN CCWTable(torque, h1, h2, h3, prev)
    ELSE prev

\* Reading the 32-bit timer: lines 186-187.
ReadTimer32(tmr2, tmr3hld) == tmr2 + tmr3hld * Word

(***************************************************************************)
(* The arithmetic of SpeedControlStep.                                     *)
(***************************************************************************)
\* Line 122 divides by zero when no transition is counted or when the mean
\* interval timer / hallCount is 0.
DividesByZero(tm, hc) == IF hc = 0 THEN TRUE ELSE tm \div hc = 0

\* Dividing by zero is undefined: the build either takes the math error trap
\* (see DIV0ERR) or goes on with an arbitrary 32-bit quotient, here all zeros
\* or all ones.  An inner quotient of all ones makes the estimate 0; an
\* estimate of all ones reads as -1 in the signed currentSpeed.
GarbageEstimates == {0, -1}

\* 1 when line 122 divides by zero, for the record of the last event.
Garbled(tm, hc) == IF DividesByZero(tm, hc) THEN 1 ELSE 0

\* Line 122: the values motorInfo.currentSpeed can get.
SpeedEstimates(tm, hc) ==
    IF DividesByZero(tm, hc) THEN GarbageEstimates
    ELSE {SPEED_CONSTANT \div (tm \div hc)}

\* A faulty integral update: the test of line 128 is missing.
ClampIntegralMissing(x) == x

\* Lines 127-130.
ClampIntegral(x) == IF x > INTEGRAL_MAX THEN INTEGRAL_MAX ELSE x

\* A faulty output: the Kd term of line 134 is part of the sum.
PIDOutputWithKd(P) ==
    (P.Kp * P.err) * Scale + (P.Ki * P.integral) + (P.Kd * P.der) * Scale * Scale

\* Lines 132-134, in thousandths.  The statement ends after the Ki term:
\* the line with the Kd term is an expression statement without effect.
PIDOutput(P) == (P.Kp * P.err) * Scale + (P.Ki * P.integral)

\* A faulty output clamp: the upper test of line 136 is missing.
ClampOutputLowerOnly(x) == IF x < 0 THEN 0 ELSE x

\* Lines 136-140, in thousandths.
ClampOutput(x) ==
    IF x > OUTPUT_MAX * Scale THEN OUTPUT_MAX * Scale
    ELSE IF x < 0 THEN 0
    ELSE x

\* Line 143: float to uint16_t truncates.
TorqueOf(output) == ToUint16(output \div (TORQUE_DIV * Scale))

\* A faulty step: the stored error is replaced by the current one (line 141)
\* before the derivative, the integral and the output are computed.
PIDStepErrFirst(P, speed, cs) ==
    LET ce == speed - cs
        der == ce - ce
        integ == ClampIntegral(P.integral + ce)
        P1 == [P EXCEPT !.currentError = ce, !.err = ce, !.der = der,
                        !.integral = integ]
        out == ClampOutput(PIDOutput(P1))
    IN  [P1 EXCEPT !.output = out]

\* Lines 124-141 on the PID state, for the estimate cs and the target speed.
PIDStep(P, speed, cs) ==
    LET ce == speed - cs
        der == P.err - ce
        integ == ClampIntegral(P.integral + P.err)
        P1 == [P EXCEPT !.currentError = ce, !.der = der, !.integral = integ]
        out == ClampOutput(PIDOutput(P1))
    IN  [P1 EXCEPT !.output = out, !.err = ce]

\* A faulty guard: the test of changeState on line 121 is missing.
StepRunsOnUpdateAlone(update) == update # 0

\* Lines 120-121: whether the step executes.
StepRuns(update) == update # 0 /\ changeState # 0

(***************************************************************************)
(* The initial state: statics are zero, the output compare and timer       *)
(* registers are at their reset values, the rotor rests at Hall pattern    *)
(* 100.                                                                    *)
(***************************************************************************)
Op(name, args, ran) == [op |-> name, args |-> args, ran |-> ran]

Init ==
    /\ motorInfo = [currentSpeed |-> 0, hallCount |-> 0, lastHallState |-> 0]
    /\ PIDs = [Kp |-> 0, Ki |-> 0, Kd |-> 0, err |-> 0, der |-> 0,
               output |-> 0, integral |-> 0, currentError |-> 0]
    /\ speedPID = [abcCoefficients |-> <<0, 0, 0>>, controlHistory |-> <<0, 0, 0>>]
    /\ timerCurr = 0 /\ timer = 0 /\ commandedTorque = 0 /\ changeState = 0
    /\ TMR2 = 0 /\ TMR3HLD = 0
    /\ GH_A_DC = 0 /\ GL_A_DC = 0 /\ GH_B_DC = 0
    /\ GL_B_DC = 0 /\ GH_C_DC = 0 /\ GL_C_DC = 0
    /\ LED1 = 0 /\ LED2 = 0 /\ LED3 = 0
    /\ HALL1 = 1 /\ HALL2 = 0 /\ HALL3 = 0
    /\ CNIF = 0
    /\ DIV0ERR = FALSE
    /\ pc = "idle"
    /\ stepSpeed = 0
    /\ pendingHalls = 0 /\ pendingTicks = 0 /\ hallSeen = FALSE /\ nSteps = 0
    /\ last = Op("reset", <<>>, FALSE)

\* The main context is between two calls and the program has not stopped.
MainIdle == pc = "idle" /\ ~DIV0ERR

(***************************************************************************)
(* The environment: the rotor reaches the next Hall edge when the 32-bit   *)
(* timer, counting since it was last written, reads r; the change of the   *)
(* pins raises the change notification interrupt flag.                     *)
(***************************************************************************)
HallChange(h1, h2, h3, r) ==
    /\ ~DIV0ERR
    /\ <<h1, h2, h3>> # <<HALL1, HALL2, HALL3>>
    /\ r >= ReadTimer32(TMR2, TMR3HLD)
    /\ HALL1' = h1 /\ HALL2' = h2 /\ HALL3' = h3
    /\ TMR2' = r % Word
    /\ TMR3HLD' = (r \div Word) % Word
    /\ CNIF' = 1
    /\ last' = Op("HallChange", <<>>, TRUE)
    /\ UNCHANGED <<motorInfo, PIDs, speedPID, timerCurr, timer, commandedTorque,
                   changeState, gates, leds, DIV0ERR, pc, stepSpeed, pendingHalls,
                   pendingTicks, hallSeen, nSteps>>

(***************************************************************************)
(* SpeedControlInit, lines 91-111.  timerCurr, changeState, commandedTorque*)
(* and PIDs.output, PIDs.currentError are not assigned.                    *)
(***************************************************************************)
InitMotorInfo(m) ==
    [m EXCEPT !.currentSpeed = 0, !.hallCount = 0, !.lastHallState = 0]

InitPIDs(P, p, i, d) ==
    [P EXCEPT !.err = 0, !.der = 0, !.integral = 0, !.Kp = p, !.Ki = i, !.Kd = d]

SpeedControlInit(p, i, d) ==
    /\ MainIdle
    /\ motorInfo' = InitMotorInfo(motorInfo)
    /\ PIDs' = InitPIDs(PIDs, p, i, d)
    /\ TMR3HLD' = 0
    /\ TMR2' = 0
    /\ timer' = 0
    /\ speedPID' = DSPTuningsInit(DSPInit(speedPID), p, i, d)
    /\ pendingHalls' = 0
    /\ pendingTicks' = 0
    /\ last' = Op("SpeedControlInit", <<>>, TRUE)
    /\ UNCHANGED <<timerCurr, commandedTorque, changeState, gates, leds, halls,
                   CNIF, DIV0ERR, pc, stepSpeed, hallSeen, nSteps>>

(***************************************************************************)
(* SpeedControlChangeTunings, lines 113-116.                               *)
(***************************************************************************)
\* A faulty retuning: it clears the PID history as SpeedControlInit does.
SpeedControlChangeTuningsResets(p, i, d) ==
    /\ MainIdle
    /\ speedPID' = DSPTuningsInit(speedPID, p, i, d)
    /\ PIDs' = [PIDs EXCEPT !.err = 0, !.der = 0, !.integral = 0]
    /\ last' = Op("SpeedControlChangeTunings", <<>>, TRUE)
    /\ UNCHANGED <<motorInfo, timerCurr, timer, commandedTorque,
                   changeState, TMR2, TMR3HLD, gates, leds, halls, CNIF,
                   DIV0ERR, pc, stepSpeed, pendingHalls, pendingTicks, hallSeen, nSteps>>

SpeedControlChangeTunings(p, i, d) ==
    /\ MainIdle
    /\ speedPID' = DSPTuningsInit(speedPID, p, i, d)
    /\ last' = Op("SpeedControlChangeTunings", <<>>, TRUE)
    /\ UNCHANGED <<motorInfo, PIDs, timerCurr, timer, commandedTorque,
                   changeState, TMR2, TMR3HLD, gates, leds, halls, CNIF,
                   DIV0ERR, pc, stepSpeed, pendingHalls, pendingTicks, hallSeen, nSteps>>

(***************************************************************************)
(* ForceDuty, lines 158-166.                                               *)
(***************************************************************************)
ForceDuty(GH_A, GL_A, GH_B, GL_B, GH_C, GL_C) ==
    /\ MainIdle
    /\ GH_A_DC' = GH_A
    /\ GL_A_DC' = GL_A
    /\ GH_B_DC' = GH_B
    /\ GL_B_DC' = GL_B
    /\ GH_C_DC' = GH_C
    /\ GL_C_DC' = GL_C
    /\ last' = Op("ForceDuty", <<>>, TRUE)
    /\ UNCHANGED <<motorInfo, PIDs, speedPID, timerCurr, timer, commandedTorque,
                   changeState, TMR2, TMR3HLD, leds, halls, CNIF, DIV0ERR, pc,
                   stepSpeed, pendingHalls, pendingTicks, hallSeen, nSteps>>

(***************************************************************************)
(* TrapUpdate, lines 182-319: the bookkeeping of lines 184-192, then the   *)
(* commutation table.  TrapBody is the function body; it runs from the     *)
(* main context (TrapUpdate) or from the interrupt (_CNInterrupt).         *)
(***************************************************************************)
\* Line 184.
CountHall(m) == [m EXCEPT !.hallCount = ToUint16(m.hallCount + 1)]

\* Line 188.
Accumulate(tm, cur) == tm + cur

TrapBody(torque, direction) ==
    LET cur == ReadTimer32(TMR2, TMR3HLD)
        out == Commutate(torque, direction, HALL1, HALL2, HALL3, CurrentOutputs)
    IN  /\ motorInfo' = CountHall(motorInfo)
        /\ timerCurr' = cur
        /\ timer' = Accumulate(timer, cur)
        /\ TMR3HLD' = 0
        /\ TMR2' = 0
        /\ changeState' = 1
        /\ GH_A_DC' = out.GH_A /\ GL_A_DC' = out.GL_A
        /\ GH_B_DC' = out.GH_B /\ GL_B_DC' = out.GL_B
        /\ GH_C_DC' = out.GH_C /\ GL_C_DC' = out.GL_C
        /\ LED1' = out.LED1 /\ LED2' = out.LED2 /\ LED3' = out.LED3
        /\ pendingHalls' = pendingHalls + 1
        /\ pendingTicks' = pendingTicks + cur
        /\ hallSeen' = TRUE
        /\ last' = Op("TrapUpdate", <<torque, direction>>, TRUE)
        /\ UNCHANGED <<PIDs, speedPID, commandedTorque, halls, DIV0ERR, pc,
                       stepSpeed, nSteps>>

TrapUpdate(torque, direction) ==
    /\ MainIdle
    /\ TrapBody(torque, direction)
    /\ UNCHANGED CNIF

(***************************************************************************)
(* _CNInterrupt, lines 321-325.  It preempts the main context anywhere.    *)
(***************************************************************************)
\* Line 323: the direction the interrupt commutates with.
InterruptDirection == CW

\* A faulty handler: it commutates with the PID output, not divided by 30.
_CNInterruptUnscaled ==
    /\ ~DIV0ERR
    /\ CNIF = 1
    /\ TrapBody(ToUint16(PIDs.output \div Scale), InterruptDirection)
    /\ CNIF' = 0

_CNInterrupt ==
    /\ ~DIV0ERR
    /\ CNIF = 1
    /\ TrapBody(commandedTorque, InterruptDirection)
    /\ CNIF' = 0

(***************************************************************************)
(* SpeedControlStep, lines 118-156, run without preemption.  The argument  *)
(* direction is not used.  When the division of line 122 divides by zero   *)
(* the step either stops in the math error trap or goes on with one of the *)
(* SpeedEstimates.                                                         *)
(***************************************************************************)
\* A faulty reset: line 150 is missing.
ConsumeMotorInfoKeepsCount(m) == m

\* Lines 150-153.
ConsumeMotorInfo(m) == [m EXCEPT !.hallCount = 0]

StepNoOp(speed, direction, update) ==
    /\ ~StepRuns(update)
    /\ last' = Op("SpeedControlStep", <<>>, FALSE)
    /\ UNCHANGED <<progVars, halls, DIV0ERR, pc, stepSpeed, pendingHalls,
                   pendingTicks, hallSeen, nSteps>>

StepTrap(speed, direction, update) ==
    /\ StepRuns(update)
    /\ DividesByZero(timer, motorInfo.hallCount)
    /\ DIV0ERR' = TRUE
    /\ last' = Op("SpeedControlStep", <<1>>, TRUE)
    /\ UNCHANGED <<progVars, halls, pc, stepSpeed, pendingHalls, pendingTicks,
                   hallSeen, nSteps>>

\* A faulty step: it reads its argument direction and takes the target as
\* negative for CCW.
StepExecuteSignedTarget(speed, direction, update) ==
    /\ StepRuns(update)
    /\ \E cs \in SpeedEstimates(timer, motorInfo.hallCount) :
          LET P == PIDStep(PIDs, IF direction = CCW THEN -speed ELSE speed, cs)
          IN  /\ PIDs' = P
              /\ commandedTorque' = TorqueOf(P.output)
              /\ motorInfo' = ConsumeMotorInfo([motorInfo EXCEPT !.currentSpeed = cs])
    /\ changeState' = 0
    /\ timer' = 0
    /\ timerCurr' = 0
    /\ pendingHalls' = pendingHalls - motorInfo.hallCount
    /\ pendingTicks' = pendingTicks - timer
    /\ hallSeen' = FALSE
    /\ nSteps' = nSteps + 1
    /\ last' = Op("SpeedControlStep", <<Garbled(timer, motorInfo.hallCount)>>, TRUE)
    /\ UNCHANGED <<speedPID, TMR2, TMR3HLD, gates, leds, halls, CNIF, DIV0ERR,
                   pc, stepSpeed>>

StepExecute(speed, direction, update) ==
    /\ StepRuns(update)
    /\ \E cs \in SpeedEstimates(timer, motorInfo.hallCount) :
          LET P == PIDStep(PIDs, speed, cs)
          IN  /\ PIDs' = P
              /\ commandedTorque' = TorqueOf(P.output)
              /\ motorInfo' = ConsumeMotorInfo([motorInfo EXCEPT !.currentSpeed = cs])
    /\ changeState' = 0
    /\ timer' = 0
    /\ timerCurr' = 0
    /\ pendingHalls' = pendingHalls - motorInfo.hallCount
    /\ pendingTicks' = pendingTicks - timer
    /\ hallSeen' = FALSE
    /\ nSteps' = nSteps + 1
    /\ last' = Op("SpeedControlStep", <<Garbled(timer, motorInfo.hallCount)>>, TRUE)
    /\ UNCHANGED <<speedPID, TMR2, TMR3HLD, gates, leds, halls, CNIF, DIV0ERR,
                   pc, stepSpeed>>

SpeedControlStep(speed, direction, update) ==
    /\ MainIdle
    /\ \/ StepNoOp(speed, direction, update)
       \/ StepTrap(speed, direction, update)
       \/ StepExecute(speed, direction, update)

(***************************************************************************)
(* SpeedControlStep statement by statement, for the runs in which the Hall *)
(* interrupt preempts it.  pc names the line about to run.                 *)
(***************************************************************************)
StepEnter(speed, direction, update) ==
    /\ MainIdle
    /\ \/ StepNoOp(speed, direction, update)
       \/ /\ StepRuns(update)
          /\ pc' = "l122"
          /\ stepSpeed' = speed
          /\ last' = Op("SpeedControlStep", <<0>>, TRUE)
          /\ UNCHANGED <<progVars, halls, DIV0ERR, pendingHalls, pendingTicks,
                         hallSeen, nSteps>>

\* Line 122: timer and hallCount are read here.
Step122 ==
    /\ pc = "l122" /\ ~DIV0ERR
    /\ \/ /\ DividesByZero(timer, motorInfo.hallCount)
          /\ DIV0ERR' = TRUE
          /\ last' = Op("SpeedControlStep", <<1>>, TRUE)
          /\ UNCHANGED <<progVars, halls, pc, stepSpeed, pendingHalls,
                         pendingTicks, hallSeen, nSteps>>
       \/ /\ \E cs \in SpeedEstimates(timer, motorInfo.hallCount) :
                motorInfo' = [motorInfo EXCEPT !.currentSpeed = cs]
          /\ pendingHalls' = pendingHalls - motorInfo.hallCount
          /\ pendingTicks' = pendingTicks - timer
          /\ hallSeen' = FALSE
          /\ pc' = "l124"
          /\ last' = Op("SpeedControlStep", <<Garbled(timer, motorInfo.hallCount)>>, TRUE)
          /\ UNCHANGED <<PIDs, speedPID, timerCurr, timer, commandedTorque,
                         changeState, TMR2, TMR3HLD, gates, leds, halls, CNIF,
                         DIV0ERR, stepSpeed, nSteps>>

\* Lines 124-143.
Step124 ==
    /\ pc = "l124" /\ ~DIV0ERR
    /\ LET P == PIDStep(PIDs, stepSpeed, motorInfo.currentSpeed)
       IN  /\ PIDs' = P
           /\ commandedTorque' = TorqueOf(P.output)
    /\ pc' = "l150"
    /\ UNCHANGED <<motorInfo, speedPID, timerCurr, timer, changeState, TMR2,
                   TMR3HLD, gates, leds, halls, CNIF, DIV0ERR, stepSpeed, ghost>>

\* Line 150.
Step150 ==
    /\ pc = "l150" /\ ~DIV0ERR
    /\ motorInfo' = ConsumeMotorInfo(motorInfo)
    /\ pc' = "l151"
    /\ UNCHANGED <<PIDs, speedPID, timerCurr, timer, commandedTorque, changeState,
                   TMR2, TMR3HLD, gates, leds, halls, CNIF, DIV0ERR, stepSpeed,
                   ghost>>

\* Line 151.
Step151 ==
    /\ pc = "l151" /\ ~DIV0ERR
    /\ changeState' = 0
    /\ pc' = "l152"
    /\ UNCHANGED <<motorInfo, PIDs, speedPID, timerCurr, timer, commandedTorque,
                   TMR2, TMR3HLD, gates, leds, halls, CNIF, DIV0ERR, stepSpeed,
                   ghost>>

\* Line 152.
Step152 ==
    /\ pc = "l152" /\ ~DIV0ERR
    /\ timer' = 0
    /\ pc' = "l153"
    /\ UNCHANGED <<motorInfo, PIDs, speedPID, timerCurr, commandedTorque,
                   changeState, TMR2, TMR3HLD, gates, leds, halls, CNIF, DIV0ERR,
                   stepSpeed, ghost>>

\* Line 153, and the return.
Step153 ==
    /\ pc = "l153" /\ ~DIV0ERR
    /\ timerCurr' = 0
    /\ pc' = "idle"
    /\ nSteps' = nSteps + 1
    /\ UNCHANGED <<motorInfo, PIDs, speedPID, timer, commandedTorque, changeState,
                   TMR2, TMR3HLD, gates, leds, halls, CNIF, DIV0ERR, stepSpeed,
                   pendingHalls, pendingTicks, hallSeen, last>>

(***************************************************************************)
(* Inputs.                                                                 *)
(***************************************************************************)
Bits == {0, 1}
Directions == {CW, CCW}
HallPatterns == Bits \X Bits \X Bits
ValidHall(h1, h2, h3) == <<h1, h2, h3>> \notin {<<0, 0, 0>>, <<1, 1, 1>>}

\* TrapUpdate may run: the model keeps at most MaxHall transitions recorded.
HallRoom == motorInfo.hallCount < MaxHall /\ pendingHalls < MaxHall

(***************************************************************************)
(* Spec: the control loop.  One target; Hall intervals of 65625 ticks (800 *)
(* speed units; two transitions in 65625 ticks give 1600) or of no tick at *)
(* all; two Hall patterns; commutation by the interrupt alone.             *)
(***************************************************************************)
CtlTargets == {1000}
CtlReadings == {0, 65625}
CtlPatterns == {<<1, 0, 0>>, <<1, 1, 0>>}
CtlGains == {<<1, 0, 0>>, <<200, 1, 0>>}
CtlTunings == {<<1, 0, 1>>}

Next ==
    \/ \E h \in CtlPatterns, r \in CtlReadings : HallChange(h[1], h[2], h[3], r)
    \/ \E g \in CtlGains : SpeedControlInit(g[1], g[2], g[3])
    \/ \E g \in CtlTunings : SpeedControlChangeTunings(g[1], g[2], g[3])
    \/ \E s \in CtlTargets, d \in Directions, u \in Bits :
          /\ StepRuns(u) => nSteps < MaxSteps
          /\ SpeedControlStep(s, d, u)
    \/ HallRoom /\ _CNInterrupt

Spec == Init /\ [][Next]_vars

(***************************************************************************)
(* SpecComm: commutation.  All eight Hall patterns, TrapUpdate called with *)
(* either direction and torque 0 or 500, ForceDuty, and the interrupt.     *)
(* No control step runs, so SpeedControlInit is what empties hallCount.    *)
(***************************************************************************)
CommReadings == {52500}
CommGains == {<<1, 0, 0>>}
CommTorques == {0, 500}
CommDuties == {<<0, 0, 0, 0, 0, 0>>, <<500, 0, 0, 500, 0, 0>>, <<500, 500, 0, 0, 0, 0>>}

NextComm ==
    \/ \E h \in HallPatterns, r \in CommReadings : HallChange(h[1], h[2], h[3], r)
    \/ \E g \in CommGains : SpeedControlInit(g[1], g[2], g[3])
    \/ \E t \in CommTorques, d \in Directions : HallRoom /\ TrapUpdate(t, d)
    \/ \E v \in CommDuties : ForceDuty(v[1], v[2], v[3], v[4], v[5], v[6])
    \/ HallRoom /\ _CNInterrupt

SpecComm == Init /\ [][NextComm]_vars

(***************************************************************************)
(* SpecWindup: a target of 65535 against a motor turning at 1000, for as   *)
(* many control steps as the integral needs to saturate; SpeedControlInit  *)
(* is called at startup only.                                              *)
(***************************************************************************)
WindupTargets == {65535}
WindupReadings == {52500}
WindupPatterns == {<<1, 0, 0>>, <<1, 1, 0>>}
WindupGains == {<<1, 1, 0>>}

NextWindup ==
    \/ \E h \in WindupPatterns, r \in WindupReadings : HallChange(h[1], h[2], h[3], r)
    \/ \E g \in WindupGains : nSteps = 0 /\ SpeedControlInit(g[1], g[2], g[3])
    \/ \E s \in WindupTargets, d \in Directions, u \in Bits :
          /\ StepRuns(u) => nSteps < WindupSteps
          /\ SpeedControlStep(s, d, u)
    \/ HallRoom /\ _CNInterrupt

SpecWindup == Init /\ [][NextWindup]_vars

(***************************************************************************)
(* SpecIntr: the Hall interrupt preempts SpeedControlStep between any two  *)
(* of its statements.                                                      *)
(***************************************************************************)
IntrTargets == {1000}
IntrReadings == {52500, 65625}
IntrPatterns == {<<1, 0, 0>>, <<1, 1, 0>>}

NextIntr ==
    \/ \E h \in IntrPatterns, r \in IntrReadings : HallChange(h[1], h[2], h[3], r)
    \/ \E s \in IntrTargets, d \in Directions, u \in Bits :
          /\ StepRuns(u) => nSteps < MaxSteps
          /\ StepEnter(s, d, u)
    \/ Step122
    \/ Step124
    \/ Step150
    \/ Step151
    \/ Step152
    \/ Step153
    \/ HallRoom /\ _CNInterrupt

SpecIntr == Init /\ [][NextIntr]_vars

(***************************************************************************)
(* SpecLoop: the control loop with retuning.  Gains with nonzero Ki and    *)
(* Kd, set by SpeedControlInit before anything else and changed later by   *)
(* SpeedControlChangeTunings; Hall intervals of 65625 ticks (800 speed     *)
(* units) and of 75000 ticks (700), against a target of 1000; commutation  *)
(* by the interrupt alone.                                                 *)
(***************************************************************************)
LoopTargets == {1000}
LoopReadings == {65625, 75000}
LoopPatterns == {<<1, 0, 0>>, <<1, 1, 0>>}
LoopGains == {<<1, 1, 1>>}
LoopTunings == {<<3, 0, 0>>}

LoopRoom == motorInfo.hallCount < LoopHall /\ pendingHalls < LoopHall

NextLoop ==
    \/ \E h \in LoopPatterns, r \in LoopReadings : HallChange(h[1], h[2], h[3], r)
    \/ \E g \in LoopGains : last.op = "reset" /\ SpeedControlInit(g[1], g[2], g[3])
    \/ \E g \in LoopTunings : SpeedControlChangeTunings(g[1], g[2], g[3])
    \/ \E s \in LoopTargets, d \in Directions, u \in Bits :
          /\ StepRuns(u) => nSteps < MaxSteps
          /\ SpeedControlStep(s, d, u)
    \/ LoopRoom /\ _CNInterrupt

SpecLoop == Init /\ [][NextLoop]_vars

(***************************************************************************)
(* SpecBook: the bookkeeping between the handler and the control step.     *)
(* TrapUpdate runs from the interrupt and is also called from the main     *)
(* context with either direction, at a valid and at an invalid Hall        *)
(* pattern; a call from the main context may find the timer at 0.          *)
(***************************************************************************)
BookTargets == {1000}
BookReadings == {65625}
BookPatterns == {<<1, 0, 0>>, <<1, 1, 1>>}
BookGains == {<<1, 0, 0>>}
BookTorques == {500}

NextBook ==
    \/ \E h \in BookPatterns, r \in BookReadings : HallChange(h[1], h[2], h[3], r)
    \/ \E g \in BookGains : nSteps = 0 /\ SpeedControlInit(g[1], g[2], g[3])
    \/ \E t \in BookTorques, d \in Directions : LoopRoom /\ TrapUpdate(t, d)
    \/ \E s \in BookTargets, d \in Directions, u \in Bits :
          /\ StepRuns(u) => nSteps < MaxSteps
          /\ SpeedControlStep(s, d, u)
    \/ LoopRoom /\ _CNInterrupt

SpecBook == Init /\ [][NextBook]_vars

(***************************************************************************)
(* Properties.                                                             *)
(***************************************************************************)
\* A control step has just executed, without dividing by zero.
StepJustRan == last.op = "SpeedControlStep" /\ last.ran /\ last.args = <<0>>

\* TrapUpdate has just returned, having read a valid Hall pattern and been
\* given one of the two directions.
ValidCommutation ==
    /\ last.op = "TrapUpdate"
    /\ ValidHall(HALL1, HALL2, HALL3)
    /\ last.args[2] \in Directions

Phases == {"A", "B", "C"}

\* The gate outputs with phase x's high side and phase y's low side at t.
PairGates(x, y, t) ==
    <<IF x = "A" THEN t ELSE 0, IF y = "A" THEN t ELSE 0,
      IF x = "B" THEN t ELSE 0, IF y = "B" THEN t ELSE 0,
      IF x = "C" THEN t ELSE 0, IF y = "C" THEN t ELSE 0>>

NoShootThrough ==
    /\ ~(GH_A_DC # 0 /\ GL_A_DC # 0)
    /\ ~(GH_B_DC # 0 /\ GL_B_DC # 0)
    /\ ~(GH_C_DC # 0 /\ GL_C_DC # 0)

\* C1: after TrapUpdate with a valid Hall pattern, either direction and any
\* torque, one phase's high side and a different phase's low side are at
\* torque and the other four outputs are 0; no phase has both sides nonzero.
C1_OneEnergizedPair ==
    ValidCommutation =>
        /\ \E x \in Phases, y \in Phases :
              x # y /\ gates = PairGates(x, y, last.args[1])
        /\ NoShootThrough

C1_Witness ==
    /\ ValidCommutation
    /\ last.args = <<500, CW>>
    /\ <<HALL1, HALL2, HALL3>> = <<1, 1, 0>>
    /\ GH_B_DC = 500 /\ GL_C_DC = 500

\* C2: a control step that executes (update true, changeState set) never
\* divides by zero on line 122: hallCount is nonzero and so is the quotient
\* timer / hallCount.
C2_StepNeverDividesByZero ==
    [][\A s \in CtlTargets, d \in Directions, u \in Bits :
          (SpeedControlStep(s, d, u) /\ u # 0 /\ changeState # 0)
              => ~DividesByZero(timer, motorInfo.hallCount)]_vars

\* C3: with the interrupt preempting the control step, no transition and no
\* tick recorded by the handler is lost: between two steps everything not
\* yet read on line 122 is still in hallCount and timer, and while such a
\* transition is recorded the pending flag is set.
C3_NoTimingDataLost ==
    /\ pc = "idle" => (pendingHalls = motorInfo.hallCount /\ pendingTicks = timer)
    /\ pendingHalls > 0 => changeState # 0

\* C4: PIDs.output is within [0, 30000] and commandedTorque within [0, 1000]
\* in every reachable state.
C4_OutputAndTorqueBounded ==
    /\ 0 <= PIDs.output /\ PIDs.output <= OUTPUT_MAX * Scale
    /\ 0 <= commandedTorque /\ commandedTorque <= OUTPUT_MAX \div TORQUE_DIV

\* The step that just ran computed more than 30000 from the previous error
\* (der + currentError) and was clamped.
C4_Witness ==
    /\ StepJustRan
    /\ PIDs.Kp * (PIDs.der + PIDs.currentError) > OUTPUT_MAX
    /\ PIDs.output = OUTPUT_MAX * Scale
    /\ commandedTorque = OUTPUT_MAX \div TORQUE_DIV

\* C5: the integral accumulator never exceeds 2,000,000, and once it is at
\* 2,000,000 it stays there as long as the error stays positive (only
\* SpeedControlInit or a negative error takes it away).
C5_IntegralSaturates ==
    /\ [](PIDs.integral <= INTEGRAL_MAX)
    /\ [][(PIDs.integral = INTEGRAL_MAX /\ PIDs.err >= 0)
             => (PIDs'.integral = INTEGRAL_MAX \/ last'.op = "SpeedControlInit")]_vars

C5_Witness ==
    /\ StepJustRan
    /\ PIDs.integral = INTEGRAL_MAX
    /\ PIDs.err > 0
    /\ nSteps = WindupSteps

\* C6: the integral accumulator is within [0, 2,000,000] in every reachable
\* state.
C6_IntegralNeverNegative ==
    0 <= PIDs.integral /\ PIDs.integral <= INTEGRAL_MAX

\* C7: with Ki = 0 and Kd = 0 an executing control step leaves
\* output = clamp(Kp * (target - estimate of this step), 0, 30000) and
\* commandedTorque = floor(output / 30).
C7_ProportionalToCurrentError ==
    (StepJustRan /\ PIDs.Ki = 0 /\ PIDs.Kd = 0) =>
        /\ PIDs.output = ClampOutput(PIDs.Kp * PIDs.currentError * Scale)
        /\ commandedTorque = PIDs.output \div (TORQUE_DIV * Scale)

Other(d) == IF d = CW THEN CCW ELSE CW

\* The gate outputs of o with the high and the low side of every phase
\* exchanged.
Mirror(o) ==
    <<o.GL_A, o.GH_A, o.GL_B, o.GH_B, o.GL_C, o.GH_C>>

\* C8: for a valid Hall pattern the pair TrapUpdate energizes under one
\* direction is the pair of the other direction with high and low side
\* exchanged, at the same torque.
C8_MirrorImage ==
    ValidCommutation =>
        gates = Mirror(Commutate(last.args[1], Other(last.args[2]),
                                 HALL1, HALL2, HALL3, CurrentOutputs))

C8_Witness ==
    /\ ValidCommutation
    /\ last.args = <<500, CCW>>
    /\ <<HALL1, HALL2, HALL3>> = <<0, 0, 1>>
    /\ GH_B_DC = 500 /\ GL_C_DC = 500

\* C9: a SpeedControlStep with update false or changeState clear changes
\* nothing; commandedTorque changes only in an executing control step, and
\* then a Hall transition was recorded since the previous executing step.
\* (SpeedControlStep does not read its argument direction: a step with CCW
\* is the same transition as the step with CW.)
C9_StepNoOpUnlessPending ==
    [][/\ \A s \in CtlTargets, u \in Bits :
             (~(u # 0 /\ changeState # 0) /\ SpeedControlStep(s, CW, u))
                 => UNCHANGED <<motorInfo, PIDs, timer, timerCurr, changeState,
                                commandedTorque, gates>>
       /\ commandedTorque' # commandedTorque
             => /\ hallSeen
                /\ \E s \in CtlTargets : SpeedControlStep(s, CW, 1)]_vars

\* A step has just returned without executing, with no transition recorded
\* and a torque command standing.
C9_Witness ==
    /\ last.op = "SpeedControlStep"
    /\ ~last.ran
    /\ changeState = 0
    /\ ~hallSeen
    /\ commandedTorque > 0

\* C10: after SpeedControlInit all control and timing state is zero: the
\* motorInfo fields, the PID error, derivative and integral, timer,
\* timerCurr, the hardware timer, changeState and commandedTorque.
C10_InitResetsEverything ==
    last.op = "SpeedControlInit" =>
        /\ motorInfo.currentSpeed = 0 /\ motorInfo.hallCount = 0
        /\ motorInfo.lastHallState = 0
        /\ PIDs.err = 0 /\ PIDs.der = 0 /\ PIDs.integral = 0
        /\ timer = 0 /\ timerCurr = 0
        /\ TMR2 = 0 /\ TMR3HLD = 0
        /\ changeState = 0
        /\ commandedTorque = 0

\* C11: SpeedControlChangeTunings leaves the PID history (integral, previous
\* error, derivative, output), commandedTorque, hallCount, timer and
\* changeState as they were, in whatever reachable state it is called.
C11_ChangeTuningsKeepsHistory ==
    [][\A g \in LoopTunings :
          SpeedControlChangeTunings(g[1], g[2], g[3])
              => /\ PIDs'.integral = PIDs.integral
                 /\ PIDs'.err = PIDs.err
                 /\ PIDs'.der = PIDs.der
                 /\ PIDs'.output = PIDs.output
                 /\ commandedTorque' = commandedTorque
                 /\ motorInfo'.hallCount = motorInfo.hallCount
                 /\ timer' = timer
                 /\ changeState' = changeState]_vars

\* The gains have just been changed with a history, a torque command and a
\* recorded transition standing.
C11_Witness ==
    /\ last.op = "SpeedControlChangeTunings"
    /\ PIDs.integral # 0 /\ PIDs.err # 0 /\ PIDs.der # 0 /\ PIDs.output # 0
    /\ commandedTorque # 0
    /\ motorInfo.hallCount # 0 /\ timer # 0 /\ changeState # 0

\* C12: gains can be changed at runtime: after
\* SpeedControlChangeTunings(p, i, d) the gains that the output computation
\* of lines 132-134 reads, PIDs.Kp, PIDs.Ki and PIDs.Kd, are p, i and d.
C12_TuningsTakeEffect ==
    [][\A g \in LoopTunings :
          SpeedControlChangeTunings(g[1], g[2], g[3])
              => (PIDs'.Kp = g[1] /\ PIDs'.Ki = g[2] /\ PIDs'.Kd = g[3])]_vars

\* C13: in every executing control step with hallCount >= 1 the estimate
\* stored in currentSpeed is 52500000 div (timer div hallCount), truncating,
\* where timer is the sum of the timer readings of the TrapUpdate calls
\* since the last executing control step.
C13_SpeedEstimateFormula ==
    [][\A s \in CtlTargets :
          (SpeedControlStep(s, CW, 1) /\ changeState # 0 /\ motorInfo.hallCount >= 1)
              => /\ timer = pendingTicks
                 /\ IF DividesByZero(timer, motorInfo.hallCount) THEN FALSE
                    ELSE motorInfo'.currentSpeed =
                            SPEED_CONSTANT \div (timer \div motorInfo.hallCount)]_vars

\* C14: with the Hall pins at 000 or 111, TrapUpdate (called with any torque
\* and either direction, or from the interrupt) leaves the six gate-drive
\* outputs and the three LEDs at the values they had before the call.
C14_InvalidPatternHolds ==
    [][(/\ ~ValidHall(HALL1, HALL2, HALL3)
        /\ \/ _CNInterrupt
           \/ \E t \in CommTorques, d \in Directions : TrapUpdate(t, d))
          => UNCHANGED <<gates, leds>>]_vars

\* TrapUpdate has just returned from an invalid pattern, called with torque
\* 0, and a pair energized before the call is still at 500.
C14_Witness ==
    /\ last.op = "TrapUpdate"
    /\ ~ValidHall(HALL1, HALL2, HALL3)
    /\ last.args[1] = 0
    /\ \E x \in Phases, y \in Phases : x # y /\ gates = PairGates(x, y, 500)
    /\ leds # <<0, 0, 0>>

\* C15: in every reachable state, whatever sequence of SpeedControlInit,
\* ForceDuty, TrapUpdate and interrupts led to it, no phase has both its
\* high-side and its low-side output at a nonzero duty.
C15_NeverShootThrough ==
    \A ph \in Phases :
        LET hi == IF ph = "A" THEN GH_A_DC ELSE IF ph = "B" THEN GH_B_DC ELSE GH_C_DC
            lo == IF ph = "A" THEN GL_A_DC ELSE IF ph = "B" THEN GL_B_DC ELSE GL_C_DC
        IN  hi = 0 \/ lo = 0

\* The error stored by the previous executing step, recovered after a step
\* from line 126: der = previous error - currentError.
PreviousError == PIDs.der + PIDs.currentError

\* C16 as claimed: the output of an executing control step is the
\* proportional term alone, clamp(Kp * previous error, 0, 30000), whatever
\* Ki, Kd, the integral accumulator and the derivative are.
C16_ProportionalOnly ==
    StepJustRan =>
        PIDs.output = ClampOutput(PIDs.Kp * PreviousError * Scale)

\* C16 as amended: only the Kd term is dead.  The output of an executing
\* control step is clamp(Kp * previous error + Ki * integral * .001, 0, 30000)
\* and commandedTorque is its thirtieth, whatever Kd and the derivative are.
C16_OnlyKdIsDead ==
    StepJustRan =>
        /\ PIDs.output =
              ClampOutput(PIDs.Kp * PreviousError * Scale + PIDs.Ki * PIDs.integral)
        /\ commandedTorque = PIDs.output \div (TORQUE_DIV * Scale)

\* A step has just run with Ki, Kd, the integral and the derivative all
\* nonzero, and its output, not clamped, is off the proportional term by the
\* integral term.
C16_Witness ==
    /\ StepJustRan
    /\ PIDs.Ki # 0 /\ PIDs.integral # 0
    /\ PIDs.Kd # 0 /\ PIDs.der # 0
    /\ 0 < PIDs.output /\ PIDs.output < OUTPUT_MAX * Scale
    /\ PIDs.output - PIDs.Kp * PreviousError * Scale = PIDs.Ki * PIDs.integral

\* C17: a torque command is applied at the next Hall transition only.  No
\* SpeedControlStep changes a gate output; commandedTorque is written by
\* executing control steps alone; and _CNInterrupt, with a valid Hall
\* pattern, leaves one pair energized at the commandedTorque standing when
\* it fires, the other four outputs at 0.
C17_TorqueAppliedAtHallTransition ==
    [][/\ (\E s \in LoopTargets, u \in Bits : SpeedControlStep(s, CW, u))
             => UNCHANGED gates
       /\ commandedTorque' # commandedTorque
             => \E s \in LoopTargets : SpeedControlStep(s, CW, 1)
       /\ (_CNInterrupt /\ ValidHall(HALL1, HALL2, HALL3))
             => /\ commandedTorque' = commandedTorque
                /\ \E x \in Phases, y \in Phases :
                      x # y /\ gates' = PairGates(x, y, commandedTorque)]_vars

\* After two control steps the interrupt has energized a pair at the
\* nonzero torque the second step commanded.
C17_Witness ==
    /\ last.op = "TrapUpdate"
    /\ nSteps = MaxSteps
    /\ commandedTorque > 0
    /\ commandedTorque = PIDs.output \div (TORQUE_DIV * Scale)
    /\ last.args[1] = commandedTorque
    /\ \E x \in Phases, y \in Phases : x # y /\ gates = PairGates(x, y, commandedTorque)

C19_UpdateOrder ==
    [][\A s \in LoopTargets :
          (SpeedControlStep(s, CW, 1) /\ changeState # 0 /\ ~DIV0ERR')
              => LET e_prev == PIDs.err
                     e_cur == s - motorInfo'.currentSpeed
                 IN  /\ PIDs'.currentError = e_cur
                     /\ PIDs'.der = e_prev - e_cur
                     /\ PIDs'.integral = Min(PIDs.integral + e_prev, INTEGRAL_MAX)
                     /\ PIDs'.output =
                           ClampOutput(PIDs.Kp * e_prev * Scale
                                       + PIDs.Ki * PIDs'.integral)
                     /\ PIDs'.err = e_cur]_vars

\* A second step has just executed with two different nonzero errors: the
\* integral holds the first, the stored error is the second.
C19_Witness ==
    /\ StepJustRan
    /\ nSteps = MaxSteps
    /\ PIDs.err = 300
    /\ PIDs.der = -100
    /\ PIDs.integral = 200
    /\ PIDs.output = 200200

\* The six gate outputs of an output record.
GatesOf(o) == <<o.GH_A, o.GL_A, o.GH_B, o.GL_B, o.GH_C, o.GL_C>>

\* C20: the argument direction of SpeedControlStep has no effect.  Every
\* transition a call with CCW can make is a transition of the same call with
\* CW, and the other way round, so runs that differ in these arguments only
\* pass through the same states; and the interrupt commutates by the CW
\* table whatever direction the steps were given.
C20_DirectionIgnored ==
    [][/\ \A s \in LoopTargets, u \in Bits :
             SpeedControlStep(s, CCW, u) <=> SpeedControlStep(s, CW, u)
       /\ _CNInterrupt
             => /\ last'.args = <<commandedTorque, CW>>
                /\ gates' = GatesOf(CWTable(commandedTorque, HALL1, HALL2, HALL3,
                                            CurrentOutputs))]_vars

\* After the control steps the interrupt has energized the pair of the CW
\* table at a nonzero torque, which is not the pair of the CCW table.
C20_Witness ==
    /\ last.op = "TrapUpdate"
    /\ last.args = <<commandedTorque, CW>>
    /\ nSteps = MaxSteps
    /\ commandedTorque > 0
    /\ gates = GatesOf(CWTable(commandedTorque, HALL1, HALL2, HALL3, CurrentOutputs))
    /\ gates # GatesOf(CCWTable(commandedTorque, HALL1, HALL2, HALL3, CurrentOutputs))

====
